---- MODULE Spec2Model ----
(***************************************************************************)
(* Model of pkg/filesystem/upload.go: the Upload pipeline, the             *)
(* CancelUpload watcher goroutine it launches, the GenerateSavePath        *)
(* resolver and the GetUploadToken credential issuer.                      *)
(*                                                                         *)
(* Strings that the code inspects (TTL settings, paths, naming rules) are  *)
(* sequences of tokens; errors are values of Errors, NoErr is Go's nil.    *)
(***************************************************************************)
EXTENDS Integers, Sequences, FiniteSets, TLC

VARIABLES
    pc,            \* position of the Upload call
    err,           \* Upload's named result variable err
    ret,           \* value Upload returned (NotReturned while it runs)
    liveAtReturn,  \* the contexts that had not ended when Upload returned
    savePath,      \* Upload's local savePath
    ctxSavePath,   \* value bound under fsctx.SavePathCtx in Upload's ctx
    calls,         \* hooks and handler calls made so far, in order
    logs,          \* records written through util.Log()
    wpc,           \* position of the CancelUpload goroutine
    reqContext,    \* CancelUpload's local reqContext
    wPath,         \* CancelUpload's parameter path
    wCtxSavePath,  \* fsctx.SavePathCtx as bound in CancelUpload's ctx
    bound,         \* which of fsctx.GinCtx / fsctx.HTTPCtx the ctx carries
    ended,         \* the contexts whose Done channel is closed, in closing order
    file,          \* the FileHeader given to Upload
    fileModel,     \* value under fsctx.FileModelCtx (NoFile when absent)
    uploadPolicy,  \* value under fsctx.UploadPolicyCtx (NoPolicy when absent)
    user,          \* fs.User: its Model.ID and its Policy
    hooked,        \* fs.AfterUploadCanceled # nil
    cache,         \* the shared cache: key -> stored value and its ttl
    issued,        \* the correlation keys Handler.Token issued a credential for
    tin,           \* the inputs of the latest GetUploadToken call
    tcalls,        \* Handler.Token and cache.Set calls of the latest call, in order
    tret,          \* what the latest GetUploadToken call returned
    ncalls         \* number of GetUploadToken calls made

uploadVars == <<pc, err, ret, liveAtReturn, savePath, ctxSavePath, calls, logs>>
watcherVars == <<wpc, reqContext, wPath, wCtxSavePath>>
ctxVars == <<bound, ended>>
inputVars == <<file, fileModel, uploadPolicy, user, hooked>>
tokenVars == <<cache, issued, tin, tcalls, tret, ncalls>>
vars == <<uploadVars, watcherVars, ctxVars, inputVars, tokenVars>>

Range(s) == {s[i] : i \in 1..Len(s)}

----------------------------------------------------------------------------
(* Errors *)

NoErr == "nil"
Errors == {"E1", "E2"}
Results == {NoErr} \cup Errors
NotReturned == "running"

(* Program constants of GetUploadToken *)
DefaultCredentialTTL == 3600
DefaultSessionTTL == 86400
Base == 10
Int64Digits == 18

(* Bound of the model: GetUploadToken calls in one behaviour *)
MaxCalls == 2

----------------------------------------------------------------------------
(* Contexts.  "op" is the ctx given to Upload; context.WithValue keeps the  *)
(* parent's Done channel, so every ctx derived in Upload and CancelUpload   *)
(* ends exactly when "op" does.  "gin" is ginCtx.Request.Context(), "http"  *)
(* the context bound under fsctx.HTTPCtx.                                   *)

Contexts == {"op", "gin", "http"}
Done(c) == c \in Range(ended)

----------------------------------------------------------------------------
(* Paths and naming rules are sequences of tokens: Sep is the path          *)
(* separator, "." and ".." are the dot components, "{uid}", "{path}" and    *)
(* "{name}" are the placeholders of a naming rule, anything else is a       *)
(* literal piece of a name.                                                 *)

Sep == "/"

RECURSIVE Flatten(_)
Flatten(ss) == IF ss = <<>> THEN <<>> ELSE Head(ss) \o Flatten(Tail(ss))

(* strings.Split(p, "/"): the components between separators *)
RECURSIVE SplitFrom(_, _)
SplitFrom(p, cur) ==
    IF p = <<>> THEN <<cur>>
    ELSE IF Head(p) = Sep THEN <<cur>> \o SplitFrom(Tail(p), <<>>)
    ELSE SplitFrom(Tail(p), Append(cur, Head(p)))

Components(p) == SplitFrom(p, <<>>)

(* filepath.Clean's walk over the components: empty and "." components are *)
(* dropped, ".." removes the component before it, is dropped at the root    *)
(* and kept at the start of a relative path.                                *)
RECURSIVE CleanWalk(_, _, _)
CleanWalk(cs, out, rooted) ==
    IF cs = <<>> THEN out
    ELSE LET c == Head(cs) IN
         IF c = <<>> \/ c = <<".">> THEN CleanWalk(Tail(cs), out, rooted)
         ELSE IF c = <<"..">> THEN
              IF out # <<>> /\ out[Len(out)] # <<"..">>
              THEN CleanWalk(Tail(cs), SubSeq(out, 1, Len(out) - 1), rooted)
              ELSE IF rooted THEN CleanWalk(Tail(cs), out, rooted)
              ELSE CleanWalk(Tail(cs), Append(out, c), rooted)
         ELSE CleanWalk(Tail(cs), Append(out, c), rooted)

RECURSIVE JoinSep(_)
JoinSep(cs) ==
    IF cs = <<>> THEN <<>>
    ELSE IF Len(cs) = 1 THEN cs[1]
    ELSE cs[1] \o <<Sep>> \o JoinSep(Tail(cs))

(* filepath.Clean *)
Clean(p) ==
    IF p = <<>> THEN <<".">>
    ELSE LET rooted == p[1] = Sep
             out == CleanWalk(Components(p), <<>>, rooted)
         IN  IF rooted THEN <<Sep>> \o JoinSep(out)
             ELSE IF out = <<>> THEN <<".">> ELSE JoinSep(out)

(* filepath.Join of two elements: empty elements are ignored, the rest are  *)
(* joined by a separator and cleaned; all empty gives the empty string.     *)
Join(a, b) ==
    IF a = <<>> /\ b = <<>> THEN <<>>
    ELSE IF a = <<>> THEN Clean(b)
    ELSE IF b = <<>> THEN Clean(a)
    ELSE Clean(a \o <<Sep>> \o b)

(* util.Replace over a rule: every placeholder of the table is replaced by  *)
(* its value, every other token is kept.                                    *)
Expand(rule, table) ==
    Flatten([i \in 1..Len(rule) |->
                IF rule[i] \in DOMAIN table THEN table[rule[i]] ELSE <<rule[i]>>])

UidToken(uid) == IF uid = 0 THEN "0" ELSE "1"

(* model.Policy.GeneratePath(uid, origin) *)
GeneratePath(policy, uid, origin) ==
    Expand(policy.DirNameRule,
           [k \in {"{uid}", "{path}"} |->
               IF k = "{uid}" THEN <<UidToken(uid)>> ELSE origin])

(* model.Policy.GenerateFileName(uid, origin) *)
GenerateFileName(policy, uid, origin) ==
    Expand(policy.FileNameRule,
           [k \in {"{uid}", "{name}"} |->
               IF k = "{uid}" THEN <<UidToken(uid)>> ELSE origin])

NoPolicy == [absent |-> TRUE]

(* The zero model.Policy: var anonymousPolicy model.Policy *)
ZeroPolicy ==
    [Type |-> "", AutoRename |-> FALSE, DirNameRule |-> <<>>, FileNameRule |-> <<>>]

(* The policy the anonymous branch builds from the context's upload policy *)
AnonymousPolicy(up) ==
    IF up = NoPolicy THEN ZeroPolicy
    ELSE [Type |-> "remote", AutoRename |-> up.AutoRename,
          DirNameRule |-> up.SavePath, FileNameRule |-> up.FileName]

(* Mutant: an upload policy in the context wins over the owner's policy *)
GenerateSavePath_UploadPolicyFirst(u, up, f) ==
    IF u.ID # 0 /\ up = NoPolicy
    THEN Join(GeneratePath(u.Policy, u.ID, f.VirtualPath),
              GenerateFileName(u.Policy, u.ID, f.FileName))
    ELSE Join(GeneratePath(AnonymousPolicy(up), 0, <<>>),
              GenerateFileName(AnonymousPolicy(up), 0, f.FileName))

(* FileSystem.GenerateSavePath(ctx, file) *)
GenerateSavePath(u, up, f) ==
    IF u.ID # 0
    THEN Join(GeneratePath(u.Policy, u.ID, f.VirtualPath),
              GenerateFileName(u.Policy, u.ID, f.FileName))
    ELSE Join(GeneratePath(AnonymousPolicy(up), 0, <<>>),
              GenerateFileName(AnonymousPolicy(up), 0, f.FileName))

----------------------------------------------------------------------------
(* The inputs of one Upload call *)

Unbound == <<"(unbound)">>
NoFile == [absent |-> TRUE]

Files ==
    { [FileName |-> <<"a.txt">>, VirtualPath |-> <<Sep, "docs">>],
      [FileName |-> <<"..">>, VirtualPath |-> <<Sep>>] }

FileModels ==
    { NoFile,
      [SourceName |-> <<Sep, "old", Sep, "b.bin">>],
      [SourceName |-> <<"old", Sep, Sep, ".", Sep, "b.bin">>] }

Policies ==
    { [Type |-> "local", AutoRename |-> FALSE,
       DirNameRule |-> <<Sep, "up", Sep, "{uid}", "{path}">>,
       FileNameRule |-> <<"{uid}", "_", "{name}">>],
      [Type |-> "local", AutoRename |-> FALSE,
       DirNameRule |-> <<"old">>,
       FileNameRule |-> <<"b.bin">>] }

UploadPolicies ==
    { NoPolicy,
      [AutoRename |-> FALSE, SavePath |-> <<Sep, "anon">>, FileName |-> <<"{name}">>] }

Users ==
    {[ID |-> 0, Policy |-> ZeroPolicy]} \cup {[ID |-> 1, Policy |-> p] : p \in Policies}

Call(op, res, path) == [op |-> op, res |-> res, path |-> path]

UploadInit ==
    /\ pc = "BeforeUpload"
    /\ err = NoErr
    /\ ret = NotReturned
    /\ liveAtReturn = {}
    /\ savePath = <<>>
    /\ ctxSavePath = Unbound
    /\ calls = <<>>
    /\ logs = {}
    /\ wpc = "NotLaunched"
    /\ reqContext = "none"
    /\ wPath = <<>>
    /\ wCtxSavePath = Unbound
    /\ bound \in SUBSET {"gin", "http"}
    /\ ended = <<>>
    /\ file \in Files
    /\ fileModel \in FileModels
    /\ uploadPolicy \in UploadPolicies
    /\ user \in Users
    /\ hooked \in BOOLEAN

TokenIdle ==
    /\ cache = <<>>
    /\ issued = {}
    /\ tin = <<>>
    /\ tcalls = <<>>
    /\ tret = <<>>
    /\ ncalls = 0

Init == UploadInit /\ TokenIdle

(* An unrecovered panic in the CancelUpload goroutine ends the process *)
Crashed == wpc = "Panic"

----------------------------------------------------------------------------
(* FileSystem.Upload *)

(* return r *)
Return(r) ==
    /\ pc' = "Returned"
    /\ ret' = r
    /\ liveAtReturn' = ({"op"} \cup bound) \ Range(ended)

(* Upload goes on to its next statement *)
Goto(next) ==
    /\ pc' = next
    /\ UNCHANGED <<ret, liveAtReturn>>

(* Mutant: the BeforeUpload error is dropped and the pipeline goes on *)
BeforeUpload_ErrorIgnored ==
    /\ pc = "BeforeUpload"
    /\ ~Crashed
    /\ \E r \in Results :
          /\ calls' = Append(calls, Call("BeforeUpload", r, ctxSavePath))
          /\ err' = r
          /\ Goto("Resolve")
    /\ UNCHANGED <<savePath, ctxSavePath, logs, watcherVars, ctxVars, inputVars, tokenVars>>

(* err = fs.Trigger(ctx, fs.BeforeUpload); if err != nil { return err } *)
BeforeUpload ==
    /\ pc = "BeforeUpload"
    /\ ~Crashed
    /\ \E r \in Results :
          /\ calls' = Append(calls, Call("BeforeUpload", r, ctxSavePath))
          /\ err' = r
          /\ IF r # NoErr THEN Return(r) ELSE Goto("Resolve")
    /\ UNCHANGED <<savePath, ctxSavePath, logs, watcherVars, ctxVars, inputVars, tokenVars>>

(* Mutant: the destination is always generated from the naming rules *)
ResolveSavePath_AlwaysGenerated ==
    GenerateSavePath(user, uploadPolicy, file)

(* The destination: the existing record's SourceName on an update, the      *)
(* generated path otherwise.                                                *)
ResolveSavePath ==
    IF fileModel # NoFile
    THEN fileModel.SourceName
    ELSE GenerateSavePath(user, uploadPolicy, file)

(* Mutant: the watcher is handed a freshly generated path *)
ResolveAndLaunch_WatcherRegenerates ==
    /\ pc = "Resolve"
    /\ ~Crashed
    /\ savePath' = ResolveSavePath
    /\ ctxSavePath' = savePath'
    /\ wpc' = "Start"
    /\ wPath' = GenerateSavePath(user, uploadPolicy, file)
    /\ wCtxSavePath' = savePath'
    /\ Goto("Put")
    /\ UNCHANGED <<err, calls, logs, reqContext, ctxVars, inputVars, tokenVars>>

(* savePath is resolved and bound under SavePathCtx, and                    *)
(* go fs.CancelUpload(ctx, savePath, file) starts the watcher.              *)
ResolveAndLaunch ==
    /\ pc = "Resolve"
    /\ ~Crashed
    /\ savePath' = ResolveSavePath
    /\ ctxSavePath' = savePath'
    /\ wpc' = "Start"
    /\ wPath' = savePath'
    /\ wCtxSavePath' = savePath'
    /\ Goto("Put")
    /\ UNCHANGED <<err, calls, logs, reqContext, ctxVars, inputVars, tokenVars>>

(* fs.Handler.Put(ctx, file, savePath, file.GetSize()) is called *)
PutStart ==
    /\ pc = "Put"
    /\ ~Crashed
    /\ calls' = Append(calls, Call("Put", "called", savePath))
    /\ Goto("Putting")
    /\ UNCHANGED <<err, savePath, ctxSavePath, logs, watcherVars, ctxVars, inputVars, tokenVars>>

(* Mutant: a failed Put is tried again *)
PutReturn_Retry ==
    /\ pc = "Putting"
    /\ ~Crashed
    /\ \E r \in Results :
          /\ calls' = Append(calls, Call("PutReturn", r, savePath))
          /\ err' = r
          /\ IF r # NoErr
             THEN IF Len(calls) < 4 THEN Goto("Put") ELSE Return(r)
             ELSE Goto("AfterUpload")
    /\ UNCHANGED <<savePath, ctxSavePath, logs, watcherVars, ctxVars, inputVars, tokenVars>>

(* Mutant: the error of Put is overwritten by the hooks that follow *)
PutReturn_FallsThrough ==
    /\ pc = "Putting"
    /\ ~Crashed
    /\ \E r \in Results :
          /\ calls' = Append(calls, Call("PutReturn", r, savePath))
          /\ err' = r
          /\ Goto("AfterUpload")
    /\ UNCHANGED <<savePath, ctxSavePath, logs, watcherVars, ctxVars, inputVars, tokenVars>>

(* Put returns: err = ...; if err != nil { return err } *)
PutReturn ==
    /\ pc = "Putting"
    /\ ~Crashed
    /\ \E r \in Results :
          /\ calls' = Append(calls, Call("PutReturn", r, savePath))
          /\ err' = r
          /\ IF r # NoErr THEN Return(r) ELSE Goto("AfterUpload")
    /\ UNCHANGED <<savePath, ctxSavePath, logs, watcherVars, ctxVars, inputVars, tokenVars>>

(* err = fs.Trigger(ctx, fs.AfterUpload); on success the PUT is logged and  *)
(* nil returned.                                                            *)
AfterUpload ==
    /\ pc = "AfterUpload"
    /\ ~Crashed
    /\ \E r \in Results :
          /\ calls' = Append(calls, Call("AfterUpload", r, ctxSavePath))
          /\ err' = r
          /\ IF r # NoErr
             THEN Goto("AfterValidateFailed") /\ logs' = logs
             ELSE /\ Return(NoErr)
                  /\ logs' = logs \cup {[msg |-> "PUT", arg |-> file.FileName]}
    /\ UNCHANGED <<savePath, ctxSavePath, watcherVars, ctxVars, inputVars, tokenVars>>

(* Mutant: a failure of the compensation is returned in place of err *)
AfterValidateFailed_ReturnsFollowUp ==
    /\ pc = "AfterValidateFailed"
    /\ ~Crashed
    /\ \E followUpErr \in Results :
          /\ calls' = Append(calls, Call("AfterValidateFailed", followUpErr, ctxSavePath))
          /\ logs' = IF followUpErr # NoErr
                     THEN logs \cup {[msg |-> "AfterValidateFailed", arg |-> <<followUpErr>>]}
                     ELSE logs
          /\ Return(IF followUpErr # NoErr THEN followUpErr ELSE err)
    /\ UNCHANGED <<err, savePath, ctxSavePath, watcherVars, ctxVars, inputVars, tokenVars>>

(* followUpErr := fs.Trigger(ctx, fs.AfterValidateFailed); it is logged     *)
(* when not nil; return err                                                 *)
AfterValidateFailed ==
    /\ pc = "AfterValidateFailed"
    /\ ~Crashed
    /\ \E followUpErr \in Results :
          /\ calls' = Append(calls, Call("AfterValidateFailed", followUpErr, ctxSavePath))
          /\ logs' = IF followUpErr # NoErr
                     THEN logs \cup {[msg |-> "AfterValidateFailed", arg |-> <<followUpErr>>]}
                     ELSE logs
    /\ Return(err)
    /\ UNCHANGED <<err, savePath, ctxSavePath, watcherVars, ctxVars, inputVars, tokenVars>>

----------------------------------------------------------------------------
(* FileSystem.CancelUpload, run as a goroutine *)

(* reqContext: the gin request's context when GinCtx is bound, else the     *)
(* value under HTTPCtx asserted to be a context.Context; the assertion      *)
(* panics when that value is absent.                                        *)
CancelUploadStart ==
    /\ wpc = "Start"
    /\ IF "gin" \in bound
       THEN reqContext' = "gin" /\ wpc' = "Wait"
       ELSE IF "http" \in bound
            THEN reqContext' = "http" /\ wpc' = "Wait"
            ELSE reqContext' = reqContext /\ wpc' = "Panic"
    /\ UNCHANGED <<wPath, wCtxSavePath, uploadVars, ctxVars, inputVars, tokenVars>>

(* Mutant: the outer select does not wait for the request context *)
CancelUploadWait_NoWait ==
    /\ wpc = "Wait"
    /\ wpc' = "Check"
    /\ UNCHANGED <<reqContext, wPath, wCtxSavePath, uploadVars, ctxVars, inputVars, tokenVars>>

(* select { case <-reqContext.Done(): *)
CancelUploadWait ==
    /\ wpc = "Wait"
    /\ Done(reqContext)
    /\ wpc' = "Check"
    /\ UNCHANGED <<reqContext, wPath, wCtxSavePath, uploadVars, ctxVars, inputVars, tokenVars>>

(* Mutant: fs.AfterUploadCanceled is not compared with nil *)
CancelUploadCheck_NoNilCheck ==
    /\ wpc = "Check"
    /\ IF Done("op")
       THEN wpc' = "Done" /\ logs' = logs /\ wCtxSavePath' = wCtxSavePath
       ELSE /\ logs' = logs \cup {[msg |-> "canceled", arg |-> <<>>]}
            /\ wpc' = "Trigger"
            /\ wCtxSavePath' = wPath
    /\ UNCHANGED <<reqContext, wPath, pc, err, ret, liveAtReturn, savePath, ctxSavePath, calls,
                   ctxVars, inputVars, tokenVars>>

(* Mutant: the inner select has its two cases the wrong way round *)
CancelUploadCheck_Inverted ==
    /\ wpc = "Check"
    /\ IF ~Done("op")
       THEN wpc' = "Done" /\ logs' = logs /\ wCtxSavePath' = wCtxSavePath
       ELSE /\ logs' = logs \cup {[msg |-> "canceled", arg |-> <<>>]}
            /\ IF ~hooked
               THEN wpc' = "Done" /\ wCtxSavePath' = wCtxSavePath
               ELSE wpc' = "Trigger" /\ wCtxSavePath' = wPath
    /\ UNCHANGED <<reqContext, wPath, pc, err, ret, liveAtReturn, savePath, ctxSavePath, calls,
                   ctxVars, inputVars, tokenVars>>

(* select { case <-ctx.Done(): default: ... }: nothing when ctx has ended;  *)
(* otherwise the cancel is logged and, unless fs.AfterUploadCanceled is     *)
(* nil, path is bound under SavePathCtx for the hooks.                      *)
CancelUploadCheck ==
    /\ wpc = "Check"
    /\ IF Done("op")
       THEN wpc' = "Done" /\ logs' = logs /\ wCtxSavePath' = wCtxSavePath
       ELSE /\ logs' = logs \cup {[msg |-> "canceled", arg |-> <<>>]}
            /\ IF ~hooked
               THEN wpc' = "Done" /\ wCtxSavePath' = wCtxSavePath
               ELSE wpc' = "Trigger" /\ wCtxSavePath' = wPath
    /\ UNCHANGED <<reqContext, wPath, pc, err, ret, liveAtReturn, savePath, ctxSavePath, calls,
                   ctxVars, inputVars, tokenVars>>

(* Mutant: the hooks are triggered again when they fail *)
CancelUploadTrigger_Retry ==
    /\ wpc = "Trigger"
    /\ \E r \in Results :
          /\ calls' = Append(calls, Call("AfterUploadCanceled", r, wCtxSavePath))
          /\ logs' = IF r # NoErr
                     THEN logs \cup {[msg |-> "AfterUploadCanceled", arg |-> <<r>>]}
                     ELSE logs
          /\ wpc' = IF r # NoErr /\ logs' # logs THEN "Trigger" ELSE "Done"
    /\ UNCHANGED <<reqContext, wPath, wCtxSavePath, pc, err, ret, liveAtReturn, savePath,
                   ctxSavePath, ctxVars, inputVars, tokenVars>>

(* err := fs.Trigger(ctx, fs.AfterUploadCanceled); it is logged when not nil *)
CancelUploadTrigger ==
    /\ wpc = "Trigger"
    /\ \E r \in Results :
          /\ calls' = Append(calls, Call("AfterUploadCanceled", r, wCtxSavePath))
          /\ logs' = IF r # NoErr
                     THEN logs \cup {[msg |-> "AfterUploadCanceled", arg |-> <<r>>]}
                     ELSE logs
    /\ wpc' = "Done"
    /\ UNCHANGED <<reqContext, wPath, wCtxSavePath, pc, err, ret, liveAtReturn, savePath,
                   ctxSavePath,
                   ctxVars, inputVars, tokenVars>>

----------------------------------------------------------------------------
(* The environment: a context the call can see ends.  The caller owns the   *)
(* ctx given to Upload and the transport owns the request's context; Upload *)
(* itself cancels neither.                                                  *)
ContextEnd ==
    /\ ~Crashed
    /\ \E c \in {"op"} \cup bound :
          /\ ~Done(c)
          /\ ended' = Append(ended, c)
    /\ UNCHANGED <<bound, uploadVars, watcherVars, inputVars, tokenVars>>

----------------------------------------------------------------------------
(* FileSystem.GetUploadToken *)

Digits == <<"0", "1", "2", "3", "4", "5", "6", "7", "8", "9">>
IsDigit(c) == \E d \in 1..10 : Digits[d] = c
DigitVal(c) == (CHOOSE d \in 1..10 : Digits[d] = c) - 1

RECURSIVE DecimalValue(_, _)
DecimalValue(s, acc) ==
    IF s = <<>> THEN acc ELSE DecimalValue(Tail(s), acc * Base + DigitVal(Head(s)))

(* strconv.ParseInt(s, 10, 64): an optional sign, then one or more decimal  *)
(* digits; anything else is ErrSyntax with value 0.  A literal of at most   *)
(* Int64Digits digits always fits 64 bits; a longer one is answered with    *)
(* ErrRange (no setting of TTLStrings is that long).                        *)
ParseInt(s) ==
    LET signed == s # <<>> /\ Head(s) \in {"+", "-"}
        body == IF signed THEN Tail(s) ELSE s
        neg == signed /\ Head(s) = "-"
    IN  IF body = <<>> \/ \E i \in 1..Len(body) : ~IsDigit(body[i])
        THEN [val |-> 0, err |-> "ErrSyntax"]
        ELSE IF Len(body) > Int64Digits
        THEN [val |-> 0, err |-> "ErrRange"]
        ELSE [val |-> IF neg THEN 0 - DecimalValue(body, 0) ELSE DecimalValue(body, 0),
              err |-> NoErr]

CredentialKey == "upload_credential_timeout"
SessionKey == "upload_session_timeout"

(* Mutant: a malformed credential TTL falls back to the default *)
CredentialTTL_Defaulted(ttls) ==
    IF CredentialKey \in DOMAIN ttls /\ ParseInt(ttls[CredentialKey]).err = NoErr
    THEN ParseInt(ttls[CredentialKey])
    ELSE [val |-> DefaultCredentialTTL, err |-> NoErr]

(* credentialTTL after the first if: the parsed setting, 3600 when absent *)
CredentialTTL(ttls) ==
    IF CredentialKey \in DOMAIN ttls
    THEN ParseInt(ttls[CredentialKey])
    ELSE [val |-> DefaultCredentialTTL, err |-> NoErr]

(* callBackSessionTTL after the second if: the parsed setting, 86400 when absent *)
CallBackSessionTTL(ttls) ==
    IF SessionKey \in DOMAIN ttls
    THEN ParseInt(ttls[SessionKey])
    ELSE [val |-> DefaultSessionTTL, err |-> NoErr]

(* serializer.NewError(code, msg, err) *)
NewError(code, msg, raw) == [code |-> code, msg |-> msg, raw |-> raw]

Nil == [nil |-> TRUE]

(* "callback_" + callbackKey *)
CacheKey(callbackKey) == <<"callback_", callbackKey>>

(* serializer.UploadSession{UID: fs.User.ID, VirtualPath: path} *)
UploadSession(u, path) == [UID |-> u.ID, VirtualPath |-> path]

TTLStrings ==
    { <<"3", "6", "0", "0">>, <<"8", "6", "4", "0", "0">>, <<"a", "b", "c">>,
      <<"-", "5">>, <<"1", "2", "a">>, <<>> }

(* model.GetSettingByNames: a map holding the settings that exist *)
Settings ==
    UNION {[ks -> TTLStrings] : ks \in SUBSET {CredentialKey, SessionKey}}

VirtualPaths == {<<Sep, "docs">>, <<Sep>>}
CallbackKeys == {"k1", "k2"}

TokenCall(ttl, key, res) == [op |-> "Token", ttl |-> ttl, key |-> key, res |-> res]
SetCall(key, value, ttl, res) ==
    [op |-> "Set", key |-> key, value |-> value, ttl |-> ttl, res |-> res]

(* int(callBackSessionTTL): an int holds at least 32 bits, and every TTL of *)
(* the model lies within 32 bits, where the conversion keeps the value.     *)
IntOf(v) == v

(* The call returns (credential, e) having made the calls cs *)
TokenReturns(credential, e, cs) ==
    /\ tret' = [credential |-> credential, err |-> e]
    /\ tcalls' = cs

(* cache.Set(key, value, ttl) returning nil stores the value *)
CacheSet(key, value, ttl) ==
    [k \in DOMAIN cache \cup {key} |->
        IF k = key THEN [value |-> value, ttl |-> ttl] ELSE cache[k]]

(* Mutant: the session is stored before the handler is asked for the token *)
IssueAndStore_StoreFirst(credentialTTL, callBackSessionTTL, path, callbackKey) ==
    \E tokenErr \in Results :
       LET credential == [key |-> callbackKey, ttl |-> credentialTTL]
           key == CacheKey(callbackKey)
           value == UploadSession(user, path)
           set == SetCall(key, value, IntOf(callBackSessionTTL), NoErr)
           token == TokenCall(credentialTTL, callbackKey, tokenErr)
       IN  /\ cache' = CacheSet(key, value, IntOf(callBackSessionTTL))
           /\ IF tokenErr # NoErr
              THEN /\ TokenReturns(Nil, NewError("CodeEncryptError", "token", tokenErr),
                                   <<set, token>>)
                   /\ issued' = issued
              ELSE /\ TokenReturns(credential, NoErr, <<set, token>>)
                   /\ issued' = issued \cup {callbackKey}

(* Mutant: the credential is returned although cache.Set failed *)
IssueAndStore_IgnoreCacheError(credentialTTL, callBackSessionTTL, path, callbackKey) ==
    \E tokenErr \in Results :
       LET credential == [key |-> callbackKey, ttl |-> credentialTTL]
           key == CacheKey(callbackKey)
           value == UploadSession(user, path)
       IN  IF tokenErr # NoErr
           THEN /\ TokenReturns(Nil, NewError("CodeEncryptError", "token", tokenErr),
                                <<TokenCall(credentialTTL, callbackKey, tokenErr)>>)
                /\ UNCHANGED <<cache, issued>>
           ELSE /\ issued' = issued \cup {callbackKey}
                /\ \E setErr \in Results :
                      /\ TokenReturns(credential, NoErr,
                              <<TokenCall(credentialTTL, callbackKey, NoErr),
                                SetCall(key, value, IntOf(callBackSessionTTL), setErr)>>)
                      /\ cache' = IF setErr # NoErr THEN cache
                                  ELSE CacheSet(key, value, IntOf(callBackSessionTTL))

(* The part of GetUploadToken after the TTLs are read: Handler.Token, then  *)
(* cache.Set, then the credential.                                          *)
IssueAndStore(credentialTTL, callBackSessionTTL, path, callbackKey) ==
    \E tokenErr \in Results :
       LET credential == [key |-> callbackKey, ttl |-> credentialTTL]
           key == CacheKey(callbackKey)
           value == UploadSession(user, path)
       IN  IF tokenErr # NoErr
           THEN /\ TokenReturns(Nil, NewError("CodeEncryptError", "token", tokenErr),
                                <<TokenCall(credentialTTL, callbackKey, tokenErr)>>)
                /\ UNCHANGED <<cache, issued>>
           ELSE /\ issued' = issued \cup {callbackKey}
                /\ \E setErr \in Results :
                      LET cs == <<TokenCall(credentialTTL, callbackKey, NoErr),
                                  SetCall(key, value, IntOf(callBackSessionTTL), setErr)>>
                      IN  IF setErr # NoErr
                          THEN TokenReturns(Nil, setErr, cs) /\ cache' = cache
                          ELSE /\ TokenReturns(credential, NoErr, cs)
                               /\ cache' = CacheSet(key, value, IntOf(callBackSessionTTL))

(* Mutant: the two TTLs are passed the wrong way round *)
GetUploadToken_SwappedTTLs ==
    /\ ncalls < MaxCalls
    /\ ncalls' = ncalls + 1
    /\ \E ttls \in Settings, path \in VirtualPaths, callbackKey \in CallbackKeys :
          LET credential == CredentialTTL(ttls)
              session == CallBackSessionTTL(ttls)
          IN  /\ tin' = [ttls |-> ttls, path |-> path, callbackKey |-> callbackKey]
              /\ IF credential.err # NoErr
                 THEN /\ TokenReturns(Nil, NewError("CodeInternalSetting", "credential",
                                                    credential.err), <<>>)
                      /\ UNCHANGED <<cache, issued>>
                 ELSE IF session.err # NoErr
                 THEN /\ TokenReturns(Nil, NewError("CodeInternalSetting", "session",
                                                    session.err), <<>>)
                      /\ UNCHANGED <<cache, issued>>
                 ELSE IssueAndStore(session.val, credential.val, path, callbackKey)
    /\ UNCHANGED <<uploadVars, watcherVars, ctxVars, inputVars>>

GetUploadToken ==
    /\ ncalls < MaxCalls
    /\ ncalls' = ncalls + 1
    /\ \E ttls \in Settings, path \in VirtualPaths, callbackKey \in CallbackKeys :
          LET credential == CredentialTTL(ttls)
              session == CallBackSessionTTL(ttls)
          IN  /\ tin' = [ttls |-> ttls, path |-> path, callbackKey |-> callbackKey]
              /\ IF credential.err # NoErr
                 THEN /\ TokenReturns(Nil, NewError("CodeInternalSetting", "credential",
                                                    credential.err), <<>>)
                      /\ UNCHANGED <<cache, issued>>
                 ELSE IF session.err # NoErr
                 THEN /\ TokenReturns(Nil, NewError("CodeInternalSetting", "session",
                                                    session.err), <<>>)
                      /\ UNCHANGED <<cache, issued>>
                 ELSE IssueAndStore(credential.val, session.val, path, callbackKey)
    /\ UNCHANGED <<uploadVars, watcherVars, ctxVars, inputVars>>

TokenInit ==
    /\ UploadInit
    /\ user.ID # 0
    /\ user.Policy.DirNameRule = <<"old">>
    /\ bound = {"gin"}
    /\ hooked
    /\ file = [FileName |-> <<"a.txt">>, VirtualPath |-> <<Sep, "docs">>]
    /\ fileModel = NoFile
    /\ uploadPolicy = NoPolicy
    /\ TokenIdle

TokenNext == GetUploadToken

TokenSpec == TokenInit /\ [][TokenNext]_vars

----------------------------------------------------------------------------
Next ==
    \/ BeforeUpload
    \/ ResolveAndLaunch
    \/ PutStart
    \/ PutReturn
    \/ AfterUpload
    \/ AfterValidateFailed
    \/ CancelUploadStart
    \/ CancelUploadWait
    \/ CancelUploadCheck
    \/ CancelUploadTrigger
    \/ ContextEnd

Spec == Init /\ [][Next]_vars

(* The steps of the CancelUpload goroutine.  The Go scheduler runs a        *)
(* goroutine that can take a step; nothing makes a context end.             *)
WatcherStep ==
    \/ CancelUploadStart
    \/ CancelUploadWait
    \/ CancelUploadCheck
    \/ CancelUploadTrigger

FairSpec == Init /\ [][Next]_vars /\ WF_vars(WatcherStep)

----------------------------------------------------------------------------
(* Vocabulary of the properties *)

Count(op) == Cardinality({i \in 1..Len(calls) : calls[i].op = op})
Called(op) == Count(op) > 0
ResultOf(op) == calls[CHOOSE i \in 1..Len(calls) : calls[i].op = op].res
Failed(op) == Called(op) /\ ResultOf(op) # NoErr
Succeeded(op) == Called(op) /\ ResultOf(op) = NoErr

(* The request-scoped context of the call: the gin request's when bound *)
RequestCtx == IF "gin" \in bound THEN "gin" ELSE "http"
HasRequestCtx == bound # {}

Position(c) == CHOOSE i \in 1..Len(ended) : ended[i] = c
(* a ended, and b had not ended by then *)
EndedBefore(a, b) == Done(a) /\ (Done(b) => Position(a) < Position(b))

(* Nothing of the call is left to run *)
Quiescent == pc = "Returned" /\ wpc \in {"NotLaunched", "Done"}

CancelLogged == [msg |-> "canceled", arg |-> <<>>] \in logs

----------------------------------------------------------------------------
(* C1: when the BeforeUpload hooks return an error, Upload has returned     *)
(* exactly that error, BeforeUpload is the only call ever made (no Put, no  *)
(* AfterUpload, no AfterValidateFailed, no AfterUploadCanceled) and the     *)
(* CancelUpload watcher is never launched, whatever contexts end.           *)
C1_BeforeUploadFailureStopsEverything ==
    Failed("BeforeUpload") =>
        /\ pc = "Returned"
        /\ ret = ResultOf("BeforeUpload")
        /\ Len(calls) = 1
        /\ ~Called("Put") /\ ~Called("AfterUpload") /\ ~Called("AfterValidateFailed")
        /\ ~Called("AfterUploadCanceled")
        /\ wpc = "NotLaunched"
        /\ ctxSavePath = Unbound

(* C1 witness: BeforeUpload failed and the client connection has closed     *)
(* while the operation context is still live.                               *)
C1_Witness ==
    /\ Failed("BeforeUpload")
    /\ hooked
    /\ HasRequestCtx /\ Done(RequestCtx) /\ ~Done("op")

(* C2 as stated: whenever the request-scoped context ended strictly before  *)
(* the operation-scoped context and nothing of the call is left to run,     *)
(* the AfterUploadCanceled hooks were triggered exactly once.               *)
C2_Original ==
    (HasRequestCtx /\ Done("op") /\ EndedBefore(RequestCtx, "op") /\ Quiescent)
        => Count("AfterUploadCanceled") = 1

(* C2 amended: the AfterUploadCanceled hooks are triggered at most once;    *)
(* they are triggered exactly once in a call whose watcher, woken by the    *)
(* end of the request-scoped context, found the operation-scoped context    *)
(* not ended while hooks are registered, and are never triggered in any     *)
(* other call; a triggering implies the request-scoped context ended        *)
(* strictly before the operation-scoped one.                                *)
C2_ExactlyOnceWhenObserved ==
    /\ Count("AfterUploadCanceled") <= 1
    /\ (wpc = "Done" /\ CancelLogged /\ hooked) => Count("AfterUploadCanceled") = 1
    /\ Called("AfterUploadCanceled") =>
          /\ wpc = "Done" /\ CancelLogged /\ hooked
          /\ HasRequestCtx /\ reqContext = RequestCtx
          /\ EndedBefore(RequestCtx, "op")

(* C2 witness: the request context ended first, then the operation context, *)
(* and the hooks ran once, failing.                                         *)
C2_Witness ==
    /\ HasRequestCtx /\ Done("op") /\ EndedBefore(RequestCtx, "op")
    /\ Quiescent
    /\ Count("AfterUploadCanceled") = 1
    /\ Failed("AfterUploadCanceled")

(* C3: when the operation-scoped context had already ended at the moment    *)
(* the request-scoped context ended, AfterUploadCanceled is never           *)
(* triggered and no cancel is logged.                                       *)
C3_NoCancelAfterOperationEnd ==
    (HasRequestCtx /\ EndedBefore("op", RequestCtx) /\ Done(RequestCtx)) =>
        /\ ~Called("AfterUploadCanceled")
        /\ ~CancelLogged
        /\ wpc # "Trigger"

(* C3 witness: the operation ended first, the request context after it, and *)
(* the watcher, with hooks registered, has run to its end.                  *)
C3_Witness ==
    /\ HasRequestCtx /\ EndedBefore("op", RequestCtx) /\ Done(RequestCtx)
    /\ hooked
    /\ wpc = "Done"
    /\ pc = "Putting"

(* C4 as stated: when the request-scoped context was still live at the      *)
(* moment Upload returned, AfterUploadCanceled is never triggered for that  *)
(* upload, however the contexts end afterwards.                             *)
C4_NoCancelAfterReturn ==
    (pc = "Returned" /\ HasRequestCtx /\ RequestCtx \in liveAtReturn)
        => ~Called("AfterUploadCanceled")

----------------------------------------------------------------------------
(* Vocabulary of the GetUploadToken properties: the latest call *)

TokenCalled == ncalls > 0
TokenSucceeded == \E i \in 1..Len(tcalls) : tcalls[i].op = "Token" /\ tcalls[i].res = NoErr
SetSucceeded == \E i \in 1..Len(tcalls) : tcalls[i].op = "Set" /\ tcalls[i].res = NoErr
SetFailed == \E i \in 1..Len(tcalls) : tcalls[i].op = "Set" /\ tcalls[i].res # NoErr

(* A decimal integer literal: an optional sign and at least one digit *)
IsInteger(s) ==
    /\ s # <<>>
    /\ IF s[1] \in {"+", "-"} THEN Len(s) > 1 ELSE TRUE
    /\ \A i \in 1..Len(s) :
          \/ s[i] \in {"0", "1", "2", "3", "4", "5", "6", "7", "8", "9"}
          \/ i = 1 /\ s[i] \in {"+", "-"}

Malformed(name) == name \in DOMAIN tin.ttls /\ ~IsInteger(tin.ttls[name])

----------------------------------------------------------------------------
(* C5: GetUploadToken returns a non-nil credential exactly when cache.Set   *)
(* stored the session in that call, the session then being in the cache     *)
(* under the call's key; when cache.Set fails after Handler.Token           *)
(* succeeded, the call returns a nil credential and the cache's error.      *)
C5_CredentialIffSessionStored ==
    TokenCalled =>
        /\ (tret.credential # Nil) <=> SetSucceeded
        /\ SetSucceeded =>
              /\ CacheKey(tin.callbackKey) \in DOMAIN cache
              /\ cache[CacheKey(tin.callbackKey)].value = UploadSession(user, tin.path)
              /\ tret.credential.key = tin.callbackKey
        /\ SetFailed =>
              /\ TokenSucceeded
              /\ tret.credential = Nil
              /\ tret.err = tcalls[Len(tcalls)].res

(* C5 witness: Handler.Token succeeded, cache.Set failed, nothing is cached *)
C5_Witness ==
    /\ TokenCalled
    /\ TokenSucceeded
    /\ SetFailed
    /\ tret.credential = Nil
    /\ DOMAIN cache = {}

(* C6: when either TTL setting is present and not a valid integer, the call *)
(* returns a nil credential with a CodeInternalSetting error, and neither   *)
(* Handler.Token nor cache.Set was invoked.                                 *)
C6_MalformedTTLIsFatal ==
    (TokenCalled /\ (Malformed(CredentialKey) \/ Malformed(SessionKey))) =>
        /\ tret.credential = Nil
        /\ tret.err \in {NewError("CodeInternalSetting", m, "ErrSyntax") :
                            m \in {"credential", "session"}}
        /\ tcalls = <<>>

(* C6 witness: the credential TTL is valid, the session TTL is malformed,   *)
(* and an earlier call's session is still the only thing in the cache.      *)
C6_Witness ==
    /\ ncalls = 2
    /\ CredentialKey \in DOMAIN tin.ttls /\ ~Malformed(CredentialKey)
    /\ Malformed(SessionKey)
    /\ tcalls = <<>>
    /\ DOMAIN cache # {}

----------------------------------------------------------------------------
(* The calls of the pipeline itself, without the watcher's *)
PipelineCalls == SelectSeq(calls, LAMBDA c : c.op # "AfterUploadCanceled")
PipelineOrder == <<"BeforeUpload", "Put", "PutReturn", "AfterUpload", "AfterValidateFailed">>
IsUpdate == fileModel # NoFile

(* The error of the first of BeforeUpload, Put, AfterUpload to fail, else nil *)
FirstFailure ==
    IF Failed("BeforeUpload") THEN ResultOf("BeforeUpload")
    ELSE IF Failed("PutReturn") THEN ResultOf("PutReturn")
    ELSE IF Failed("AfterUpload") THEN ResultOf("AfterUpload")
    ELSE NoErr

(* C7: AfterValidateFailed is triggered only after Put succeeded and        *)
(* AfterUpload returned an error, and it has been triggered once Upload     *)
(* returns in that case; Upload then returns the AfterUpload error whatever *)
(* AfterValidateFailed returned, whose own error only reaches the log.      *)
C7_CompensationKeepsPrimaryError ==
    /\ Called("AfterValidateFailed") =>
          Succeeded("PutReturn") /\ Failed("AfterUpload")
    /\ (pc = "Returned" /\ Failed("AfterUpload")) =>
          /\ Count("AfterValidateFailed") = 1
          /\ ret = ResultOf("AfterUpload")
          /\ ret # NoErr
          /\ Failed("AfterValidateFailed") =>
                [msg |-> "AfterValidateFailed",
                 arg |-> <<ResultOf("AfterValidateFailed")>>] \in logs

(* C7 witness: AfterUpload failed with E1, AfterValidateFailed with E2, and *)
(* Upload returned E1.                                                      *)
C7_Witness ==
    /\ pc = "Returned"
    /\ Failed("AfterUpload") /\ ResultOf("AfterUpload") = "E1"
    /\ Failed("AfterValidateFailed") /\ ResultOf("AfterValidateFailed") = "E2"
    /\ ret = "E1"

(* C8: the calls the pipeline has made are, in order, an initial part of    *)
(* BeforeUpload, Put called, Put returned, AfterUpload,                     *)
(* AfterValidateFailed: each step at most once, none before its             *)
(* predecessor has returned.                                                *)
C8_FixedOrderNoRepeat ==
    /\ Len(PipelineCalls) <= Len(PipelineOrder)
    /\ \A i \in 1..Len(PipelineCalls) : PipelineCalls[i].op = PipelineOrder[i]
    /\ Called("Put") => Succeeded("BeforeUpload")
    /\ Called("AfterUpload") => Succeeded("PutReturn")

(* C8 witness: all five steps have run, with the watcher's hook in between  *)
C8_Witness ==
    /\ Len(PipelineCalls) = 5
    /\ Called("AfterUploadCanceled")
    /\ calls[Len(calls)].op = "AfterValidateFailed"

(* C9: on an update, the destination given to Handler.Put and bound under   *)
(* SavePathCtx for every hook that runs after it is resolved is the         *)
(* existing record's SourceName, token for token.                           *)
C9_UpdateKeepsSourceName ==
    IsUpdate =>
        /\ \A i \in 1..Len(calls) :
              calls[i].op # "BeforeUpload" => calls[i].path = fileModel.SourceName
        /\ pc \notin {"BeforeUpload", "Resolve"} /\ ~Failed("BeforeUpload") =>
              /\ savePath = fileModel.SourceName
              /\ ctxSavePath = fileModel.SourceName
              /\ wPath = fileModel.SourceName

(* C9 witness: an update whose SourceName is neither in cleaned form nor    *)
(* what the naming rules give has been put and its AfterUpload hooks run.   *)
C9_Witness ==
    /\ IsUpdate
    /\ fileModel.SourceName # Clean(fileModel.SourceName)
    /\ fileModel.SourceName # GenerateSavePath(user, uploadPolicy, file)
    /\ user.ID # 0
    /\ Called("AfterUpload")

(* C10: the value Upload returns is nil or the error of the first of        *)
(* BeforeUpload, Put, AfterUpload to fail, whatever AfterValidateFailed and *)
(* AfterUploadCanceled returned; when Put fails, that is Put's error and    *)
(* neither AfterUpload nor AfterValidateFailed is triggered.                *)
C10_ReturnIsFirstFailure ==
    /\ pc = "Returned" => ret = FirstFailure
    /\ pc # "Returned" => ret = NotReturned
    /\ Failed("PutReturn") =>
          /\ pc = "Returned"
          /\ ret = ResultOf("PutReturn")
          /\ ~Called("AfterUpload") /\ ~Called("AfterValidateFailed")

(* C10 witness: Put failed with E2 after the watcher's AfterUploadCanceled  *)
(* hooks had failed with E1, and Upload returned E2.                        *)
C10_Witness ==
    /\ pc = "Returned"
    /\ Failed("PutReturn") /\ ResultOf("PutReturn") = "E2"
    /\ Failed("AfterUploadCanceled") /\ ResultOf("AfterUploadCanceled") = "E1"
    /\ ret = "E2"

----------------------------------------------------------------------------
(* C11: every step that triggers the AfterUploadCanceled hooks is the first *)
(* such step of the call and is taken with the request-scoped context       *)
(* ended; and the watcher gets to the triggering only by a check made with  *)
(* the request-scoped context ended and the operation-scoped context not    *)
(* ended.                                                                   *)
C11_TriggerOnlyOnObservedAbort ==
    [][ /\ Count("AfterUploadCanceled")' # Count("AfterUploadCanceled") =>
             /\ Count("AfterUploadCanceled") = 0
             /\ Count("AfterUploadCanceled")' = 1
             /\ wpc = "Trigger"
             /\ Done(reqContext)
        /\ (wpc # "Trigger" /\ wpc' = "Trigger") =>
             /\ wpc = "Check"
             /\ reqContext \in bound
             /\ Done(reqContext)
             /\ ~Done("op")
      ]_vars

(* C11 witness: the hooks were triggered once during the transfer, and the  *)
(* operation context ended only afterwards.                                 *)
C11_Witness ==
    /\ Count("AfterUploadCanceled") = 1
    /\ pc = "Putting"
    /\ Done("op")
    /\ wpc = "Done"

----------------------------------------------------------------------------
WatcherRunning == wpc \in {"Start", "Wait", "Check", "Trigger"}
WatcherOver == wpc \in {"Done", "Panic"}

(* C12 as stated: once the operation-scoped context has ended, a launched   *)
(* watcher eventually terminates, whether or not the request-scoped context *)
(* ever ends.                                                               *)
C12_WatcherTerminatesOnOperationEnd ==
    (WatcherRunning /\ Done("op")) ~> WatcherOver

(* C13: with no AfterUploadCanceled hook registered, the watcher never      *)
(* triggers a hook and never gets to the triggering; a detected abort only  *)
(* writes the cancel log and ends the watcher, and the step that detects it *)
(* changes nothing of the upload: not its position, its result, its         *)
(* destination, the SavePathCtx bindings or the calls made.                 *)
C13_NoHookNoEffect ==
    [][ ~hooked =>
          /\ Count("AfterUploadCanceled")' = 0
          /\ wpc' # "Trigger"
          /\ (wpc = "Check" /\ wpc' # "Check") =>
                /\ wpc' = "Done"
                /\ <<pc, err, ret, savePath, ctxSavePath, calls>>'
                      = <<pc, err, ret, savePath, ctxSavePath, calls>>
                /\ <<wPath, wCtxSavePath>>' = <<wPath, wCtxSavePath>>
                /\ logs' \subseteq logs \cup {[msg |-> "canceled", arg |-> <<>>]}
      ]_vars

(* C13 witness: no hook registered, the client aborted during the transfer, *)
(* the watcher saw it and has ended, and the pipeline went on to return.    *)
C13_Witness ==
    /\ ~hooked
    /\ CancelLogged
    /\ wpc = "Done"
    /\ ~Done("op")
    /\ pc = "Returned" /\ ret = NoErr

----------------------------------------------------------------------------
(* The remote-type policy C14 speaks of, built from an upload policy *)
RemotePolicyOf(up) ==
    [Type |-> "remote", AutoRename |-> up.AutoRename,
     DirNameRule |-> up.SavePath, FileNameRule |-> up.FileName]

AnonScenario ==
    /\ user.ID = 0
    /\ uploadPolicy = [AutoRename |-> FALSE, SavePath |-> <<Sep, "anon">>,
                       FileName |-> <<"{name}">>]
    /\ file.FileName = <<"a.txt">>

OwnerScenario ==
    /\ user.ID = 1
    /\ user.Policy.DirNameRule = <<Sep, "up", Sep, "{uid}", "{path}">>
    /\ file.FileName = <<"a.txt">>

(* C14: for a new file, once the destination is resolved: with a non-zero   *)
(* owner ID it is the owner policy's directory rule (owner ID, virtual      *)
(* path) joined with its file rule (owner ID, file name), whatever upload   *)
(* policy the context carries; with owner ID 0 and an upload policy in the  *)
(* context it is the directory rule joined with the file rule of the        *)
(* remote-type policy built from that upload policy, both applied with      *)
(* owner ID 0.  Policy {autoRename: false, "/anon", "{name}"} and a.txt     *)
(* give /anon/a.txt; the owner rules "/up/{uid}{path}" and "{uid}_{name}"   *)
(* give /up/1/docs/1_a.txt for owner 1, /docs and a.txt.                    *)
C14_SavePathByOwner ==
    (~IsUpdate /\ wpc # "NotLaunched") =>
        /\ user.ID # 0 =>
              savePath = Join(GeneratePath(user.Policy, user.ID, file.VirtualPath),
                              GenerateFileName(user.Policy, user.ID, file.FileName))
        /\ (user.ID = 0 /\ uploadPolicy # NoPolicy) =>
              savePath = Join(GeneratePath(RemotePolicyOf(uploadPolicy), 0, <<>>),
                              GenerateFileName(RemotePolicyOf(uploadPolicy), 0,
                                               file.FileName))
        /\ AnonScenario => savePath = <<Sep, "anon", Sep, "a.txt">>
        /\ OwnerScenario =>
              savePath = <<Sep, "up", Sep, "1", Sep, "docs", Sep, "1", "_", "a.txt">>

(* C14 witness: the anonymous scenario has resolved its destination and put *)
(* the file there.                                                          *)
C14_Witness ==
    /\ ~IsUpdate
    /\ AnonScenario
    /\ Called("Put")
    /\ calls[2].path = <<Sep, "anon", Sep, "a.txt">>

----------------------------------------------------------------------------
Resolved == pc \notin {"BeforeUpload", "Resolve"} /\ wpc # "NotLaunched"

(* Every call made once the destination is resolved carries it: Put as its  *)
(* argument, the hooks as the value under SavePathCtx.                      *)
OneDestination ==
    \A i \in 1..Len(calls) :
        calls[i].op # "BeforeUpload" => calls[i].path = savePath

(* C15: the destination is assigned in one step only, the one that resolves *)
(* it; from then on savePath, the SavePathCtx binding of the pipeline and   *)
(* the path and SavePathCtx binding of the watcher never change and are     *)
(* one value, and Put, AfterUpload, AfterValidateFailed and                 *)
(* AfterUploadCanceled are all called with that value.                      *)
C15_DestinationResolvedOnce ==
    [][ /\ savePath' # savePath => (pc = "Resolve" /\ pc' # "Resolve")
        /\ Resolved =>
             /\ <<savePath, ctxSavePath, wPath, wCtxSavePath>>'
                   = <<savePath, ctxSavePath, wPath, wCtxSavePath>>
             /\ ctxSavePath = savePath /\ wPath = savePath /\ wCtxSavePath = savePath
        /\ OneDestination'
      ]_vars

(* C15 witness: a new file whose Put, AfterUpload, AfterValidateFailed and  *)
(* AfterUploadCanceled calls have all been made, each with the generated    *)
(* destination.                                                             *)
C15_Witness ==
    /\ ~IsUpdate /\ user.ID # 0
    /\ savePath # <<>>
    /\ Called("Put") /\ Called("AfterUpload")
    /\ Called("AfterValidateFailed") /\ Called("AfterUploadCanceled")
    /\ OneDestination

----------------------------------------------------------------------------
TokenFailed == \E i \in 1..Len(tcalls) : tcalls[i].op = "Token" /\ tcalls[i].res # NoErr

(* C16: after any sequence of GetUploadToken calls, every session in the    *)
(* cache is stored under the key of a correlation token for which           *)
(* Handler.Token succeeded; in a call, cache.Set is invoked only after a    *)
(* successful Handler.Token for the same token, and when Handler.Token      *)
(* fails the call returns a nil credential with a CodeEncryptError that     *)
(* wraps the handler's error, and makes no cache.Set call.                  *)
C16_SessionOnlyAfterIssuedToken ==
    /\ \A k \in DOMAIN cache : \E key \in issued : k = CacheKey(key)
    /\ \A i \in 1..Len(tcalls) :
          tcalls[i].op = "Set" =>
              /\ i = 2
              /\ tcalls[1].op = "Token" /\ tcalls[1].res = NoErr
              /\ tcalls[i].key = CacheKey(tcalls[1].key)
    /\ (TokenCalled /\ TokenFailed) =>
          /\ Len(tcalls) = 1
          /\ tret.credential = Nil
          /\ tret.err = NewError("CodeEncryptError", "token", tcalls[1].res)

(* C16 witness: a first call stored a session under k1; in the second call, *)
(* for k2, Handler.Token failed and k2 has no session.                      *)
C16_Witness ==
    /\ ncalls = 2
    /\ TokenFailed
    /\ tin.callbackKey = "k2"
    /\ DOMAIN cache = {CacheKey("k1")}
    /\ issued = {"k1"}

----------------------------------------------------------------------------
(* The number a TTL setting of the model spells *)
SpelledValue(str) ==
    CASE str = <<"3", "6", "0", "0">> -> 3600
      [] str = <<"8", "6", "4", "0", "0">> -> 86400
      [] str = <<"-", "5">> -> 0 - 5

(* The TTL the latest call is to use for a setting: its value, or the       *)
(* default when the setting is absent.                                      *)
ExpectedTTL(name, default) ==
    IF name \in DOMAIN tin.ttls THEN SpelledValue(tin.ttls[name]) ELSE default

(* C17: a successful call made exactly two calls: Handler.Token with the    *)
(* credential TTL and the correlation token, then cache.Set under           *)
(* "callback_" + that same token with the session {UID of the acting user,  *)
(* requested virtual path} and the session TTL; the cache holds that        *)
(* session with that TTL and the credential returned is the handler's.  An  *)
(* absent setting counts as 3600 (credential) or 86400 (session).           *)
C17_SuccessfulCallArguments ==
    (TokenCalled /\ tret.credential # Nil) =>
        LET credentialTTL == ExpectedTTL(CredentialKey, 3600)
            sessionTTL == ExpectedTTL(SessionKey, 86400)
            session == [UID |-> user.ID, VirtualPath |-> tin.path]
            key == <<"callback_", tin.callbackKey>>
        IN  /\ tcalls = << [op |-> "Token", ttl |-> credentialTTL,
                            key |-> tin.callbackKey, res |-> NoErr],
                           [op |-> "Set", key |-> key, value |-> session,
                            ttl |-> sessionTTL, res |-> NoErr] >>
            /\ key \in DOMAIN cache
            /\ cache[key] = [value |-> session, ttl |-> sessionTTL]
            /\ tret = [credential |-> [key |-> tin.callbackKey, ttl |-> credentialTTL],
                       err |-> NoErr]

(* C17 witness: a successful call with no credential setting and the        *)
(* session setting "3600": Token got 3600 by default, Set got the parsed    *)
(* 3600, after a first call with neither setting had stored 86400.          *)
C17_Witness ==
    /\ ncalls = 2
    /\ tret.credential # Nil
    /\ DOMAIN tin.ttls = {SessionKey}
    /\ tin.ttls[SessionKey] = <<"3", "6", "0", "0">>
    /\ tcalls[1].ttl = 3600 /\ tcalls[2].ttl = 3600
    /\ tin.callbackKey = "k2"
    /\ CacheKey("k1") \in DOMAIN cache
    /\ cache[CacheKey("k1")].ttl = 86400

----------------------------------------------------------------------------
(* C18 as stated: in one Upload call the AfterUpload hooks and the          *)
(* AfterUploadCanceled hooks are never both triggered.                      *)
C18_AfterUploadExcludesCanceled ==
    ~(Called("AfterUpload") /\ Called("AfterUploadCanceled"))

(* C19 as stated: a launched watcher never aborts abnormally, and once past *)
(* its first statements it holds a request-scoped context: the gin          *)
(* request's when GinCtx is bound, else the one bound under HTTPCtx.        *)
C19_WatcherAlwaysGetsRequestContext ==
    /\ wpc # "Panic"
    /\ wpc \in {"Wait", "Check", "Trigger", "Done"} =>
          /\ reqContext \in bound
          /\ "gin" \in bound => reqContext = "gin"

====
